---- MODULE Spec2Model ----
(***************************************************************************)
(* Model of backend_auth_api/src/api/main.py: the in-memory user store     *)
(* _USERS and the two handlers register_user and login_user, together     *)
(* with the request validation declared by RegisterRequest / LoginRequest. *)
(*                                                                         *)
(* Text is modelled in two ways.  Emails are sequences of one-character    *)
(* strings, so that str.lower() is computed character by character.        *)
(* Names and passwords are strings; a password is only measured (Len) and  *)
(* hashed.  SHA-256 is modelled by a table of the real hex digests of the  *)
(* passwords the model uses.                                               *)
(*                                                                         *)
(* Spec     : handlers run one at a time (each call is one step).          *)
(* SpecConc : register_user runs on two worker threads; the membership     *)
(*            test (line 98) and the insertion (lines 101-105) are         *)
(*            separate steps, as they are for threads of the server's      *)
(*            thread pool.                                                 *)
(***************************************************************************)
EXTENDS Naturals, Sequences, FiniteSets, TLC

VARIABLES
    USERS,      \* _USERS: normalized email -> user record
    resp,       \* the last request handled and the response returned for it
    pending,    \* per worker thread: the Register payload that passed line 98
                \* and has not yet reached line 101, or NoRequest
    creator,    \* history: key -> payload of the successful Register that
                \* wrote the record currently stored under the key
    regCalls,   \* history: key -> number of Register calls that reached the
                \* handler with that normalized email (Spec only)
    lost        \* history: payloads of successful Registers whose record was
                \* overwritten by a later insertion (SpecConc only)

vars == <<USERS, resp, pending, creator, regCalls, lost>>

(***************************************************************************)
(* Bounds and program constants                                            *)
(***************************************************************************)
\* cap on the history counter regCalls[k]
MaxRegCalls == 2

\* Field(..., min_length=6) of RegisterRequest.password
MinLength == 6

StatusOk == 200
StatusDuplicate == 400
StatusInvalidCredentials == 401
StatusNotFound == 404

Threads == {"t1", "t2"}

NoRequest == [kind |-> "none"]

(***************************************************************************)
(* Inputs                                                                  *)
(***************************************************************************)
Names == {"", "Ann"}

Emails ==
    { <<"a", "n", "n", "@", "x">>,
      <<"A", "n", "n", "@", "x">>,
      <<"A", "N", "N", "@", "X">>,
      <<"b", "o", "@", "x">>,
      <<"a", "n", "n", "x">> }

Passwords == {"short", "secret", "other1"}

RegisterPayloads == [name : Names, email : Emails, password : Passwords]

LoginPayloads == [email : Emails, password : Passwords]

\* the requests of the concurrent runs: one account, in two spellings
ConcEmails == { <<"a", "n", "n", "@", "x">>, <<"A", "N", "N", "@", "X">> }

ConcRegisterPayloads == [name : Names, email : ConcEmails, password : Passwords]

ConcLoginPayloads == [email : ConcEmails, password : Passwords]

(***************************************************************************)
(* Pure functions                                                          *)
(***************************************************************************)
\* str.lower(), on the letters the model's emails use
LowerChar(c) ==
    CASE c = "A" -> "a"
      [] c = "B" -> "b"
      [] c = "N" -> "n"
      [] c = "O" -> "o"
      [] c = "X" -> "x"
      [] OTHER -> c

lower(s) == [i \in DOMAIN s |-> LowerChar(s[i])]

\* hashlib.sha256(pw.encode("utf-8")).hexdigest(): the real digests
sha256_hexdigest(pw) ==
    CASE pw = "short" ->
           "f9b0078b5df596d2ea19010c001bbd009e651de2c57e8fb7e355f31eb9d3f739"
      [] pw = "secret" ->
           "2bb80d537b1da3e38bd30361aa855686bde0eacd7162fef6a25fe97bf527a25b"
      [] pw = "other1" ->
           "0ef821e6aa54508c6e15575b36aeac4b62521782712b00986297b9745b75790a"

_hash_password(pw) == sha256_hexdigest(pw)

\* EmailStr: one "@", with a non-empty local part and a non-empty domain
IsEmailStr(e) ==
    /\ Cardinality({i \in DOMAIN e : e[i] = "@"}) = 1
    /\ e[1] # "@"
    /\ e[Len(e)] # "@"

\* RegisterRequest: name is any str, email an EmailStr, password min_length 6
RegisterRequestValid(payload) ==
    /\ IsEmailStr(payload.email)
    /\ Len(payload.password) >= MinLength

\* LoginRequest: email an EmailStr, password any str
LoginRequestValid(payload) == IsEmailStr(payload.email)

\* the framework's answer to a payload that fails validation
ValidationError == [status |-> 422, body |-> [detail |-> "validation error"]]

(***************************************************************************)
(* register_user                                                           *)
(***************************************************************************)
\* line 98: email in _USERS
UserExists(users, email) == email \in DOMAIN users

\* _USERS.setdefault(email, {...}): a record already there is kept
StoreUser_setdefault(users, payload, email) ==
    [k \in DOMAIN users \cup {email} |->
        IF k \in DOMAIN users
        THEN users[k]
        ELSE [name |-> payload.name,
              email |-> email,
              password_hash |-> _hash_password(payload.password)]]

\* lines 101-105: _USERS[email] = {...}
StoreUser(users, payload, email) ==
    [k \in DOMAIN users \cup {email} |->
        IF k = email
        THEN [name |-> payload.name,
              email |-> email,
              password_hash |-> _hash_password(payload.password)]
        ELSE users[k]]

\* line 99
DuplicateUser == [status |-> StatusDuplicate,
                  body |-> [detail |-> "User already exists"]]

\* a response that echoes the stored hash
RegisterResponse_echo(payload, email) ==
    [status |-> StatusOk,
     body |-> [message |-> "User registered",
               user |-> [name |-> payload.name, email |-> email,
                         password_hash |-> _hash_password(payload.password)]]]

\* line 106
RegisterResponse(payload, email) ==
    [status |-> StatusOk,
     body |-> [message |-> "User registered",
               user |-> [name |-> payload.name, email |-> email]]]

\* register_user keyed by the email as typed: no .lower() on line 97
register_user_rawkey(users, payload) ==
    LET email == payload.email
    IN  IF UserExists(users, email)
        THEN [users |-> users, response |-> DuplicateUser]
        ELSE [users |-> StoreUser(users, payload, email),
              response |-> RegisterResponse(payload, email)]

\* register_user without the membership test of lines 98-99
register_user_upsert(users, payload) ==
    LET email == lower(payload.email)
    IN  [users |-> StoreUser(users, payload, email),
         response |-> RegisterResponse(payload, email)]

\* register_user that stores before it tests: a duplicate is answered 400
\* after the record has been replaced
register_user_store_first(users, payload) ==
    LET email == lower(payload.email)
    IN  IF UserExists(users, email)
        THEN [users |-> StoreUser(users, payload, email),
              response |-> DuplicateUser]
        ELSE [users |-> StoreUser(users, payload, email),
              response |-> RegisterResponse(payload, email)]

\* lines 95-106, run without interruption
register_user(users, payload) ==
    LET email == lower(payload.email)
    IN  IF UserExists(users, email)
        THEN [users |-> users, response |-> DuplicateUser]
        ELSE [users |-> StoreUser(users, payload, email),
              response |-> RegisterResponse(payload, email)]

(***************************************************************************)
(* login_user                                                              *)
(***************************************************************************)
\* line 127
UserNotFound == [status |-> StatusNotFound,
                 body |-> [detail |-> "User not found"]]

\* line 130
InvalidCredentials == [status |-> StatusInvalidCredentials,
                       body |-> [detail |-> "Invalid credentials"]]

\* line 132
LoginResponse(user, email) ==
    [status |-> StatusOk,
     body |-> [message |-> "Login successful",
               user |-> [name |-> user.name, email |-> email]]]

\* login_user that looks the email up as typed: no .lower() on line 124
login_user_rawkey(users, payload) ==
    LET email == payload.email
    IN  IF ~UserExists(users, email)
        THEN [users |-> users, response |-> UserNotFound]
        ELSE IF users[email].password_hash # _hash_password(payload.password)
             THEN [users |-> users, response |-> InvalidCredentials]
             ELSE [users |-> users,
                   response |-> LoginResponse(users[email], email)]

\* login_user that answers 401 for an unknown email as well
login_user_no_404(users, payload) ==
    LET email == lower(payload.email)
    IN  IF ~UserExists(users, email)
        THEN [users |-> users, response |-> InvalidCredentials]
        ELSE IF users[email].password_hash # _hash_password(payload.password)
             THEN [users |-> users, response |-> InvalidCredentials]
             ELSE [users |-> users,
                   response |-> LoginResponse(users[email], email)]

\* login_user without the comparison of line 129
login_user_no_compare(users, payload) ==
    LET email == lower(payload.email)
    IN  IF ~UserExists(users, email)
        THEN [users |-> users, response |-> UserNotFound]
        ELSE [users |-> users,
              response |-> LoginResponse(users[email], email)]

\* login_user with _USERS.pop(email, None) for _USERS.get(email)
login_user_pop(users, payload) ==
    LET email == lower(payload.email)
        rest == [k \in DOMAIN users \ {email} |-> users[k]]
    IN  IF ~UserExists(users, email)
        THEN [users |-> rest, response |-> UserNotFound]
        ELSE IF users[email].password_hash # _hash_password(payload.password)
             THEN [users |-> rest, response |-> InvalidCredentials]
             ELSE [users |-> rest,
                   response |-> LoginResponse(users[email], email)]

\* lines 122-132
login_user(users, payload) ==
    LET email == lower(payload.email)
    IN  IF ~UserExists(users, email)
        THEN [users |-> users, response |-> UserNotFound]
        ELSE IF users[email].password_hash # _hash_password(payload.password)
             THEN [users |-> users, response |-> InvalidCredentials]
             ELSE [users |-> users,
                   response |-> LoginResponse(users[email], email)]

(***************************************************************************)
(* State machine                                                           *)
(***************************************************************************)
Keys == {lower(e) : e \in {x \in Emails : IsEmailStr(x)}}

Response(op, payload, r) ==
    [op |-> op, req |-> payload, status |-> r.status, body |-> r.body]

Init ==
    /\ USERS = << >>
    /\ resp = [op |-> "none", req |-> NoRequest, status |-> 0,
               body |-> [detail |-> ""]]
    /\ pending = [t \in Threads |-> NoRequest]
    /\ creator = << >>
    /\ regCalls = [k \in Keys |-> 0]
    /\ lost = {}

\* history of a Register call that reached the handler and returned r
Created(payload, r) ==
    IF r.status = StatusOk
    THEN [k \in DOMAIN creator \cup {lower(payload.email)} |->
            IF k = lower(payload.email) THEN payload ELSE creator[k]]
    ELSE creator

\* POST /register, the whole call as one step
Register(payload) ==
    IF ~RegisterRequestValid(payload)
    THEN /\ resp' = Response("register", payload, ValidationError)
         /\ UNCHANGED <<USERS, pending, creator, regCalls, lost>>
    ELSE LET email == lower(payload.email)
             out == register_user(USERS, payload)
         IN  /\ regCalls[email] < MaxRegCalls
             /\ USERS' = out.users
             /\ resp' = Response("register", payload, out.response)
             /\ creator' = Created(payload, out.response)
             /\ regCalls' = [regCalls EXCEPT ![email] = @ + 1]
             /\ UNCHANGED <<pending, lost>>

\* POST /login, the whole call as one step
Login(payload) ==
    IF ~LoginRequestValid(payload)
    THEN /\ resp' = Response("login", payload, ValidationError)
         /\ UNCHANGED <<USERS, pending, creator, regCalls, lost>>
    ELSE LET out == login_user(USERS, payload)
         IN  /\ USERS' = out.users
             /\ resp' = Response("login", payload, out.response)
             /\ UNCHANGED <<pending, creator, regCalls, lost>>

Next ==
    \/ \E payload \in RegisterPayloads : Register(payload)
    \/ \E payload \in LoginPayloads : Login(payload)

Spec == Init /\ [][Next]_vars

(***************************************************************************)
(* register_user on worker threads: lines 97-99, then lines 101-106        *)
(***************************************************************************)
\* thread t validates the payload and runs lines 97-99
RegisterCheck(t, payload) ==
    /\ pending[t] = NoRequest
    /\ IF ~RegisterRequestValid(payload)
       THEN /\ resp' = Response("register", payload, ValidationError)
            /\ UNCHANGED pending
       ELSE IF UserExists(USERS, lower(payload.email))
            THEN /\ resp' = Response("register", payload, DuplicateUser)
                 /\ UNCHANGED pending
            ELSE /\ pending' = [pending EXCEPT ![t] = payload]
                 /\ UNCHANGED resp
    /\ UNCHANGED <<USERS, creator, regCalls, lost>>

\* thread t runs lines 101-106 for the payload it holds
RegisterInsert(t) ==
    /\ pending[t] # NoRequest
    /\ LET payload == pending[t]
           email == lower(payload.email)
           r == RegisterResponse(payload, email)
       IN  /\ USERS' = StoreUser(USERS, payload, email)
           /\ resp' = Response("register", payload, r)
           /\ creator' = Created(payload, r)
           /\ lost' = IF UserExists(USERS, email) /\ r.status = StatusOk
                      THEN lost \cup {creator[email]}
                      ELSE lost
    /\ pending' = [pending EXCEPT ![t] = NoRequest]
    /\ UNCHANGED regCalls

NextConc ==
    \/ \E t \in Threads, payload \in ConcRegisterPayloads : RegisterCheck(t, payload)
    \/ \E t \in Threads : RegisterInsert(t)
    \/ \E payload \in ConcLoginPayloads : Login(payload)

SpecConc == Init /\ [][NextConc]_vars

(***************************************************************************)
(* Properties                                                              *)
(***************************************************************************)
\* the last call reached its handler (it passed request validation)
Handled(op) == resp.op = op /\ resp.status # ValidationError.status

LastKey == lower(resp.req.email)

\* the record lines 101-105 build from a Register payload
RecordOf(payload) ==
    [name |-> payload.name,
     email |-> lower(payload.email),
     password_hash |-> sha256_hexdigest(payload.password)]

ValidPasswords == {pw \in Passwords : Len(pw) >= MinLength}

\* C1: with calls run one at a time, the first Register that reaches the
\* handler for a normalized email succeeds and every later one for that
\* normalized email is answered DuplicateUser (400), whatever its name and
\* password; so a key is in the store exactly when a Register was made for it.
C1_FirstRegisterWins ==
    /\ \A k \in Keys : regCalls[k] >= 1 <=> k \in DOMAIN USERS
    /\ Handled("register") =>
         /\ regCalls[LastKey] >= 1
         /\ regCalls[LastKey] = 1 =>
              resp.status = StatusOk /\ creator[LastKey] = resp.req
         /\ regCalls[LastKey] > 1 =>
              /\ resp.status = StatusDuplicate
              /\ resp.body = [detail |-> "User already exists"]

\* a second Register for a registered email, in another spelling and with
\* another name and password, was answered 400
C1_Witness ==
    /\ Handled("register")
    /\ regCalls[LastKey] = 2
    /\ resp.status = StatusDuplicate
    /\ resp.req.email # creator[LastKey].email
    /\ resp.req.name # creator[LastKey].name
    /\ resp.req.password # creator[LastKey].password

\* C2: once Register(name, e1, p) has succeeded, in every later state a
\* Login(e2, p) with lower(e2) = lower(e1) succeeds and returns
\* user = {name, lower(e1)}; and every such Login that was made did so.
C2_LoginIgnoresCase ==
    /\ \A k \in DOMAIN creator :
         \A e2 \in {e \in Emails : IsEmailStr(e) /\ lower(e) = k} :
            login_user(USERS, [email |-> e2,
                               password |-> creator[k].password]).response
              = [status |-> StatusOk,
                 body |-> [message |-> "Login successful",
                           user |-> [name |-> creator[k].name,
                                     email |-> lower(creator[k].email)]]]
    /\ (/\ Handled("login")
        /\ LastKey \in DOMAIN creator
        /\ resp.req.password = creator[LastKey].password)
         => /\ resp.status = StatusOk
            /\ resp.body.user = [name |-> creator[LastKey].name,
                                 email |-> lower(creator[LastKey].email)]

\* a Login succeeded with a spelling of the email other than the registered one
C2_Witness ==
    /\ Handled("login")
    /\ resp.status = StatusOk
    /\ LastKey \in DOMAIN creator
    /\ resp.req.email # creator[LastKey].email
    /\ resp.req.email # LastKey

\* C3: a Login whose normalized email has no record is answered UserNotFound
\* (404) whatever the password; 401 is only ever answered for a stored email.
C3_UnknownEmailIs404 ==
    /\ \A payload \in LoginPayloads :
         (LoginRequestValid(payload) /\ lower(payload.email) \notin DOMAIN USERS)
           => login_user(USERS, payload).response = UserNotFound
    /\ (Handled("login") /\ LastKey \notin DOMAIN USERS)
         => resp.status = StatusNotFound /\ resp.body = [detail |-> "User not found"]
    /\ (Handled("login") /\ resp.status = StatusInvalidCredentials)
         => LastKey \in DOMAIN USERS

\* a Login for an unregistered email was answered 404 while another email
\* was registered with the very password supplied
C3_Witness ==
    /\ Handled("login")
    /\ resp.status = StatusNotFound
    /\ \E k \in DOMAIN creator : creator[k].password = resp.req.password

CollisionFree ==
    \A p, q \in Passwords : sha256_hexdigest(p) = sha256_hexdigest(q) => p = q

\* C4: a Login for a registered email succeeds exactly when the digest of
\* the supplied password equals the stored password_hash, and is answered
\* InvalidCredentials (401) otherwise; the digests being collision free, a
\* password other than the registered one never succeeds.
C4_PasswordDecides ==
    (Handled("login") /\ LastKey \in DOMAIN USERS) =>
      /\ resp.status = StatusOk
           <=> sha256_hexdigest(resp.req.password) = USERS[LastKey].password_hash
      /\ resp.status # StatusOk =>
           /\ resp.status = StatusInvalidCredentials
           /\ resp.body = [detail |-> "Invalid credentials"]
      /\ (CollisionFree /\ resp.req.password # creator[LastKey].password)
           => resp.status = StatusInvalidCredentials

\* a Login for a registered email with another password was answered 401
C4_Witness ==
    /\ Handled("login")
    /\ LastKey \in DOMAIN USERS
    /\ resp.req.password # creator[LastKey].password
    /\ resp.status = StatusInvalidCredentials

\* C5: a Login step, whatever its outcome, leaves the User Store as it was.
C5_LoginReadOnly ==
    [][(\E payload \in LoginPayloads : Login(payload)) => USERS' = USERS]_vars

\* a Login succeeded against a store holding two records
C5_Witness ==
    /\ Handled("login")
    /\ resp.status = StatusOk
    /\ Cardinality(DOMAIN USERS) = 2

\* C6: with calls run one at a time, a stored record is never changed or
\* removed by any step, and a Register answered DuplicateUser leaves the
\* whole store unchanged.
C6_RecordsNeverChange ==
    [][/\ \A k \in DOMAIN USERS : k \in DOMAIN USERS' /\ USERS'[k] = USERS[k]
       /\ (\E payload \in RegisterPayloads :
              Register(payload) /\ resp'.status = StatusDuplicate)
            => USERS' = USERS]_vars

\* a Register with other data was answered 400 and the record is the first one
C6_Witness ==
    /\ Handled("register")
    /\ resp.status = StatusDuplicate
    /\ RecordOf(resp.req) # USERS[LastKey]
    /\ USERS[LastKey] = RecordOf(creator[LastKey])

\* C7: a Register with an empty name or a password shorter than 6 characters
\* is rejected by validation, so no stored record has an empty name or was
\* created from a password of fewer than 6 characters.
C7_ValidatedInputOnly ==
    /\ (resp.op = "register"
          /\ (resp.req.name = "" \/ Len(resp.req.password) < MinLength))
         => resp.status = ValidationError.status
    /\ \A k \in DOMAIN USERS :
         /\ USERS[k].name # ""
         /\ Len(creator[k].password) >= MinLength

\* the part of C7 the code does enforce: the password length
C7_PasswordLengthOnly ==
    /\ (resp.op = "register" /\ Len(resp.req.password) < MinLength)
         => resp.status = ValidationError.status
    /\ \A k \in DOMAIN USERS : Len(creator[k].password) >= MinLength

Without(users, k) == [x \in DOMAIN users \ {k} |-> users[x]]

WithPassword(users, k, pw) ==
    [users EXCEPT ![k].password_hash = sha256_hexdigest(pw)]

\* C8: a success response carries message and a user payload with exactly
\* name and email; the same Register made with any other password, and the
\* same Login against a store holding any other password, return the same
\* response.
C8_NoPasswordInResponse ==
    /\ (Handled("register") /\ resp.status = StatusOk) =>
         /\ DOMAIN resp.body = {"message", "user"}
         /\ DOMAIN resp.body.user = {"name", "email"}
         /\ \A pw \in ValidPasswords :
              LET out == register_user(Without(USERS, LastKey),
                                       [resp.req EXCEPT !.password = pw])
              IN  out.response = [status |-> resp.status, body |-> resp.body]
    /\ (Handled("login") /\ resp.status = StatusOk) =>
         /\ DOMAIN resp.body = {"message", "user"}
         /\ DOMAIN resp.body.user = {"name", "email"}
         /\ \A pw \in ValidPasswords :
              LET out == login_user(WithPassword(USERS, LastKey, pw),
                                    [resp.req EXCEPT !.password = pw])
              IN  out.response = [status |-> resp.status, body |-> resp.body]

\* a Register succeeded while another valid password could have been sent
C8_Witness ==
    /\ Handled("register")
    /\ resp.status = StatusOk
    /\ \E pw \in ValidPasswords : pw # resp.req.password

\* C9: when two Registers for one normalized email overlap, both having
\* passed line 98 before either reached line 101, both are answered success
\* (lost and creator only hold payloads answered 200), the store holds the
\* record of the later insertion, and a Login with the earlier caller's
\* password, when it differs, is answered InvalidCredentials.
C9_LaterInsertOverwrites ==
    \A p \in lost :
      LET k == lower(p.email)
      IN  /\ UserExists(USERS, k)
          /\ k \in DOMAIN creator
          /\ USERS[k] = RecordOf(creator[k])
          /\ p.password # creator[k].password =>
               login_user(USERS, [email |-> p.email,
                                  password |-> p.password]).response
                 = InvalidCredentials

\* both Registers returned success and the first caller's Login got 401
C9_Witness ==
    \E p \in lost :
      /\ p.password # creator[lower(p.email)].password
      /\ resp = Response("login",
                         [email |-> p.email, password |-> p.password],
                         InvalidCredentials)

\* C10: every key of the store is a lowercase email, the record under key k
\* has email k and the digest of the password of the Register that created
\* it, and no two keys differ only in letter case.
C10_StoreInvariant ==
    /\ \A k \in DOMAIN USERS :
         /\ k = lower(k)
         /\ USERS[k].email = k
         /\ k \in DOMAIN creator
         /\ lower(creator[k].email) = k
         /\ USERS[k].password_hash = sha256_hexdigest(creator[k].password)
    /\ \A k1, k2 \in DOMAIN USERS : lower(k1) = lower(k2) => k1 = k2

\* the store holds a record registered under an email typed in capitals
C10_Witness ==
    \E k \in DOMAIN USERS :
      /\ creator[k].email # k
      /\ Cardinality(DOMAIN USERS) = 2

====
